---- MODULE Spec2Model ----
(***************************************************************************)
(* The buffered line editor and the stdio glue of src/src/main.c: the ring *)
(* buffer (start_ndx, end_ndx, buf), get_buffered_line, back_up and _read, *)
(* _write, and the millisecond counter with sys_tick_handler and msleep.   *)
(* Bytes are their character codes.  BUFLEN is 127 in the source; the      *)
(* model keeps every formula of the source in terms of BUFLEN and runs it  *)
(* at a small BUFLEN so that the cursors wrap within a few lines.          *)
(***************************************************************************)
EXTENDS Integers, Sequences, FiniteSets

\* main.c:25  #define BUFLEN 127 (scaled down)
BUFLEN == 4

\* character codes used by main.c
CR == 13
NL == 10
NUL == 0
BS == 8
DEL == 127
CTRL_W == 23
CTRL_U == 21
BEL == 7

\* ordinary bytes the transport delivers: ' ', 'h', 'i'
Ordinary == {32, 104, 105}
\* every byte the transport delivers in the model
RecvBytes == Ordinary \cup {CR, BS, DEL, CTRL_W, CTRL_U}
\* file identifiers and lengths passed to _read and _write
Fds == {-1, 0, 1, 2, 3}
ReadLens == 0..BUFLEN
\* the history variable line is not extended beyond this length
LineCap == BUFLEN + 1
\* the history variable script is dropped beyond this many received bytes
ScriptCap == BUFLEN + 1

\* system_millis is a uint32_t (main.c:34); the model counts modulo
\* 2^MillisBits
MillisBits == 3
MillisMod == 2 ^ MillisBits
\* delays passed to msleep
MaxDelay == 3
Delays == 0..MaxDelay
\* strings passed to _write: NUL-terminated arrays of at most MaxWrite bytes
\* of 'A', '\n' and '\0', and "A\nB"
MaxWrite == 2
WriteStrs ==
    UNION {[1..k -> {65, 10, 0}] : k \in 0..MaxWrite} \cup {<<65, 10, 66>>}
WriteLens == 0..(MaxWrite + 1)

VARIABLES
    start_ndx,  \* main.c:27
    end_ndx,    \* main.c:28
    buf,        \* main.c:29, indexed 0..BUFLEN
    pc,         \* where the main thread is: "idle", "line" (blocked in
                \* usart_recv_blocking, main.c:135), "drain" (get_buffered_line
                \* has returned into _read, main.c:236)
    caller,     \* who called get_buffered_line: "read", "direct" or "none"
    len,        \* the len argument of the _read in progress or of the last
                \* _write
    ptr,        \* the string in the array _write is given
    dest,       \* bytes _read stored through ptr in the last step
    ret,        \* value _read returned in the last step, 0 if none returned
    sent,       \* bytes the last step passed to usart_send_blocking
    op,         \* the branch the last step took
    line,       \* history: bytes of the current line echoed as accepted, not
                \* erased by back_up and not yet returned by _read
    script      \* history: the bytes received and the bytes sent in the
                \* current session while only ordinary bytes and the carriage
                \* return have been received, at most ScriptCap of them;
                \* Edited afterwards
VARIABLES
    system_millis,  \* main.c:34
    wake,           \* main.c:42, the local of the msleep in progress
    delay,          \* main.c:40, the argument of the msleep in progress
    slept           \* history: ticks taken since the msleep in progress was
                    \* called, counted up to MaxDelay + 1

\* what the line editor and the stream functions read and write
ring == <<start_ndx, end_ndx, buf, pc, caller, len, ptr, dest, ret, sent, op, line,
          script>>
\* what sys_tick_handler and msleep read and write
clock == <<system_millis, wake, delay, slept>>
vars == <<start_ndx, end_ndx, buf, pc, caller, len, ptr, dest, ret, sent, op, line, script,
          system_millis, wake, delay, slept>>

Edited == [typed |-> <<-1>>, echo |-> <<-1>>]
NoScript == [typed |-> <<>>, echo |-> <<>>]

\* C's % on int operands truncates toward zero
CRem(a, n) == IF a >= 0 THEN a % n ELSE -((-a) % n)

\* main.c:30
BufLenOf(s, e) == CRem(e - s, BUFLEN)
buf_len == BufLenOf(start_ndx, end_ndx)

\* inc_ndx wrapping at the size of buf instead of BUFLEN
inc_ndx_bufsize(n) == (n + 1) % (BUFLEN + 1)

\* main.c:31
inc_ndx(n) == (n + 1) % BUFLEN
\* dec_ndx without the wrap from 0 to BUFLEN - 1
dec_ndx_nowrap(n) == IF n = 0 THEN 0 ELSE n - 1

\* main.c:32
dec_ndx(n) == ((n + BUFLEN) - 1) % BUFLEN

\* isspace() of <ctype.h> in the C locale
isspace(c) == c \in {9, 10, 11, 12, 13, 32}

\* the three bytes back_up sends, main.c:117-119
BackUpBytes == <<BS, 32, BS>>

RECURSIVE Repeat(_, _)
Repeat(s, k) == IF k = 0 THEN <<>> ELSE s \o Repeat(s, k - 1)

DropLast(s, k) == SubSeq(s, 1, IF Len(s) > k THEN Len(s) - k ELSE 0)

\* the statics of main.c:27-34, zero at start, before any call
InitStatics ==
    /\ start_ndx = 0
    /\ end_ndx = 0
    /\ buf = [i \in 0..BUFLEN |-> NUL]
    /\ pc = "idle"
    /\ caller = "none"
    /\ len = 0
    /\ dest = <<>>
    /\ ret = 0
    /\ sent = <<>>
    /\ op = "init"
    /\ line = <<>>
    /\ script = NoScript
    /\ system_millis = 0
    /\ wake = 0
    /\ delay = 0
    /\ slept = 0

Init ==
    /\ InitStatics
    /\ ptr = <<>>

\* the program started with some string of WriteStrs in the array it will
\* pass to _write
InitWrite ==
    /\ InitStatics
    /\ ptr \in WriteStrs

\* get_buffered_line without the test of main.c:129
EnterNoCheck(who, n) ==
    /\ len' = n
    /\ dest' = <<>>
    /\ ret' = 0
    /\ sent' = <<>>
    /\ UNCHANGED <<start_ndx, end_ndx, buf>>
    /\ pc' = "line"
    /\ caller' = who
    /\ op' = "fill_enter"
    /\ line' = <<>>
    /\ script' = NoScript

\* get_buffered_line entered: main.c:129-132 decide whether it returns at once
Enter(who, n) ==
    /\ len' = n
    /\ dest' = <<>>
    /\ ret' = 0
    /\ sent' = <<>>
    /\ UNCHANGED <<start_ndx, end_ndx, buf>>
    /\ IF start_ndx # end_ndx
       THEN /\ pc' = IF who = "read" THEN "drain" ELSE "idle"
            /\ caller' = IF who = "read" THEN "read" ELSE "none"
            /\ op' = "fill_return"
            /\ UNCHANGED <<line, script>>
       ELSE /\ pc' = "line"
            /\ caller' = who
            /\ op' = "fill_enter"
            /\ line' = <<>>
            /\ script' = NoScript

\* a direct call of get_buffered_line, main.c:125
GetBufferedLine ==
    /\ pc = "idle"
    /\ Enter("direct", 0)
    /\ UNCHANGED <<ptr, clock>>

\* _read up to the point where get_buffered_line blocks or returns, main.c:226-235
Read(fd, n) ==
    /\ pc = "idle"
    /\ UNCHANGED <<ptr, clock>>
    /\ IF fd > 2
       THEN /\ ret' = -1
            /\ dest' = <<>>
            /\ sent' = <<>>
            /\ op' = "read_badfd"
            /\ UNCHANGED <<start_ndx, end_ndx, buf, pc, caller, len, line, script>>
       ELSE Enter("read", n)

\* number of back_up calls of the ^W loop started with the write cursor at e
\* on the storage b, main.c:160-164
RECURSIVE WordBackUpsIn(_, _)
WordBackUpsIn(b, e) ==
    IF BufLenOf(start_ndx, e) > 0 /\ ~isspace(b[e])
    THEN 1 + WordBackUpsIn(b, dec_ndx(e))
    ELSE 0

WordBackUps(e) == WordBackUpsIn(buf, e)

\* number of back_up calls of the ^U loop started with the write cursor at e,
\* main.c:169-172
RECURSIVE LineBackUps(_)
LineBackUps(e) ==
    IF BufLenOf(start_ndx, e) > 0
    THEN 1 + LineBackUps(dec_ndx(e))
    ELSE 0

RECURSIVE DecBy(_, _)
DecBy(e, k) == IF k = 0 THEN e ELSE DecBy(dec_ndx(e), k - 1)

\* k calls of back_up, main.c:114-120
BackUp(k, name) ==
    /\ end_ndx' = DecBy(end_ndx, k)
    /\ sent' = Repeat(BackUpBytes, k)
    /\ line' = DropLast(line, k)
    /\ op' = name
    /\ UNCHANGED <<start_ndx, buf, pc, caller>>

Alert(name) ==
    /\ sent' = <<BEL>>
    /\ op' = name
    /\ UNCHANGED <<start_ndx, end_ndx, buf, pc, caller, line>>

\* the carriage return branch echoing '\n' before '\r', as _write does
TerminateLfCr ==
    /\ buf' = [buf EXCEPT ![end_ndx] = NL, ![inc_ndx(end_ndx)] = NUL]
    /\ end_ndx' = inc_ndx(end_ndx)
    /\ sent' = <<NL, CR>>
    /\ line' = Append(line, NL)
    /\ op' = "cr"
    /\ pc' = IF caller = "read" THEN "drain" ELSE "idle"
    /\ caller' = IF caller = "read" THEN "read" ELSE "none"
    /\ UNCHANGED start_ndx

\* the carriage return branch, main.c:136-144
Terminate ==
    /\ buf' = [buf EXCEPT ![end_ndx] = NL, ![inc_ndx(end_ndx)] = NUL]
    /\ end_ndx' = inc_ndx(end_ndx)
    /\ sent' = <<CR, NL>>
    /\ line' = Append(line, NL)
    /\ op' = "cr"
    /\ pc' = IF caller = "read" THEN "drain" ELSE "idle"
    /\ caller' = IF caller = "read" THEN "read" ELSE "none"
    /\ UNCHANGED start_ndx

\* the non-editing branch, main.c:175-187
Insert(c) ==
    IF buf_len = BUFLEN - 1
    THEN Alert("insert_bell")
    ELSE /\ Len(line) < LineCap
         /\ buf' = [buf EXCEPT ![end_ndx] = c]
         /\ end_ndx' = inc_ndx(end_ndx)
         /\ sent' = <<c>>
         /\ line' = Append(line, c)
         /\ op' = "insert"
         /\ UNCHANGED <<start_ndx, pc, caller>>

\* one pass of the while (1) loop of get_buffered_line on the byte c, main.c:133-188
Recv(c) ==
    /\ pc = "line"
    /\ UNCHANGED <<ptr, clock>>
    /\ UNCHANGED <<len, dest, ret>>
    /\ IF c = CR THEN Terminate
       ELSE IF c = BS \/ c = DEL
            THEN IF buf_len = 0 THEN Alert("erase_char_bell")
                 ELSE /\ BackUp(1, "erase_char")
                      /\ UNCHANGED buf
       ELSE IF c = CTRL_W
            THEN /\ BackUp(WordBackUps(end_ndx), "erase_word")
                 /\ UNCHANGED buf
       ELSE IF c = CTRL_U
            THEN /\ BackUp(LineBackUps(end_ndx), "erase_line")
                 /\ UNCHANGED buf
       ELSE Insert(c)
    /\ script' = IF \/ script = Edited
                    \/ c \notin Ordinary \cup {CR}
                    \/ Len(script.typed) >= ScriptCap
                 THEN Edited
                 ELSE [typed |-> Append(script.typed, c),
                       echo |-> script.echo \o sent']

\* number of passes of the copy loop of _read with n bytes still wanted and the
\* read cursor at s, main.c:237-243
RECURSIVE Copies(_, _)
Copies(s, n) ==
    IF BufLenOf(s, end_ndx) > 0 /\ n > 0
    THEN 1 + Copies(inc_ndx(s), n - 1)
    ELSE 0

RECURSIVE IncBy(_, _)
IncBy(s, k) == IF k = 0 THEN s ELSE IncBy(inc_ndx(s), k - 1)

\* the copy loop and the return of _read, main.c:236-244
Drain ==
    /\ pc = "drain"
    /\ UNCHANGED <<ptr, clock>>
    /\ LET my_len == Copies(start_ndx, len)
       IN /\ dest' = [i \in 1..my_len |-> buf[IncBy(start_ndx, i - 1)]]
          /\ start_ndx' = IncBy(start_ndx, my_len)
          /\ ret' = my_len
          /\ line' = SubSeq(line, my_len + 1, Len(line))
    /\ pc' = "idle"
    /\ caller' = "none"
    /\ sent' = <<>>
    /\ op' = "drain"
    /\ UNCHANGED <<end_ndx, buf, len, script>>

Next ==
    \/ GetBufferedLine
    \/ \E fd \in Fds, n \in ReadLens : Read(fd, n)
    \/ \E c \in RecvBytes : Recv(c)
    \/ Drain

Spec == Init /\ [][Next]_vars

\* ---------------------------------------------------------------------
\* _write, sys_tick_handler and msleep

\* the byte at ptr[i - 1] of a NUL-terminated array holding p
ByteAt(p, i) == IF i <= Len(p) THEN p[i] ELSE NUL

\* the bytes the loop of _write sends from its pass with i bytes done,
\* main.c:208-217
RECURSIVE WriteSendsCrFirst(_, _, _)
WriteSendsCrFirst(p, i, n) ==
    IF ByteAt(p, i + 1) # NUL /\ i < n
    THEN (IF ByteAt(p, i + 1) = NL THEN <<CR>> ELSE <<>>)
         \o <<ByteAt(p, i + 1)>>
         \o WriteSendsCrFirst(p, i + 1, n)
    ELSE <<>>

RECURSIVE WriteSends(_, _, _)
WriteSends(p, i, n) ==
    IF ByteAt(p, i + 1) # NUL /\ i < n
    THEN <<ByteAt(p, i + 1)>>
         \o (IF ByteAt(p, i + 1) = NL THEN <<CR>> ELSE <<>>)
         \o WriteSends(p, i + 1, n)
    ELSE <<>>

\* the value of i when the loop of _write ends, main.c:208-218
RECURSIVE WriteCount(_, _, _)
WriteCount(p, i, n) ==
    IF ByteAt(p, i + 1) # NUL /\ i < n
    THEN WriteCount(p, i + 1, n)
    ELSE i

\* _write, main.c:194-219
Write(fd, p, n) ==
    /\ pc = "idle"
    /\ IF fd > 2
       THEN /\ ret' = -1
            /\ sent' = <<>>
            /\ op' = "write_badfd"
       ELSE /\ ret' = WriteCount(p, 0, n)
            /\ sent' = WriteSends(p, 0, n)
            /\ op' = "write"
    /\ dest' = <<>>
    /\ ptr' = p
    /\ len' = n
    /\ UNCHANGED <<start_ndx, end_ndx, buf, pc, caller, line, script>>
    /\ UNCHANGED clock

\* sys_tick_handler, main.c:35-38; the interrupt is taken wherever the main
\* thread is
Tick ==
    /\ system_millis' = (system_millis + 1) % MillisMod
    /\ slept' = IF pc = "sleep" /\ slept <= MaxDelay THEN slept + 1 ELSE slept
    /\ UNCHANGED <<wake, delay>>
    /\ UNCHANGED ring

\* msleep up to its loop, main.c:40-42
MsleepResets(d) ==
    /\ pc = "idle"
    /\ system_millis' = 0
    /\ wake' = d % MillisMod
    /\ delay' = d
    /\ slept' = 0
    /\ pc' = "sleep"
    /\ op' = "msleep"
    /\ sent' = <<>>
    /\ dest' = <<>>
    /\ ret' = 0
    /\ UNCHANGED <<start_ndx, end_ndx, buf, caller, len, ptr, line, script>>

Msleep(d) ==
    /\ pc = "idle"
    /\ wake' = (system_millis + d) % MillisMod
    /\ delay' = d
    /\ slept' = 0
    /\ pc' = "sleep"
    /\ op' = "msleep"
    /\ sent' = <<>>
    /\ dest' = <<>>
    /\ ret' = 0
    /\ UNCHANGED <<start_ndx, end_ndx, buf, caller, len, ptr, line, script,
                   system_millis>>

\* the test of the loop of msleep fails and msleep returns, main.c:43-45;
\* while wake > system_millis the loop spins without changing anything
MsleepReturn ==
    /\ pc = "sleep"
    /\ ~(wake > system_millis)
    /\ pc' = "idle"
    /\ op' = "msleep_return"
    /\ wake' = 0
    /\ delay' = 0
    /\ slept' = 0
    /\ UNCHANGED <<start_ndx, end_ndx, buf, caller, len, ptr, dest, ret, sent, line,
                   script, system_millis>>

\* _read on lines of 'h' and _write on the string of the program
NextWrite ==
    \/ GetBufferedLine
    \/ \E fd \in Fds : Read(fd, BUFLEN)
    \/ \E c \in {104, CR} : Recv(c)
    \/ Drain
    \/ \E fd \in Fds, n \in WriteLens : Write(fd, ptr, n)

SpecWrite == InitWrite /\ [][NextWrite]_vars

\* the main thread calling get_buffered_line, _read, _write and msleep on lines
\* of 'h', with the tick interrupt taken at any point
NextTick ==
    \/ GetBufferedLine
    \/ Read(0, BUFLEN)
    \/ \E c \in {104, CR} : Recv(c)
    \/ Drain
    \/ Write(1, <<65, 10, 66>>, 3)
    \/ Tick
    \/ \E d \in Delays : Msleep(d)
    \/ MsleepReturn

SpecTick == Init /\ [][NextTick]_vars

\* ---------------------------------------------------------------------
\* What the specification calls the occupied count, and the bytes it covers

Min(a, b) == IF a < b THEN a ELSE b

\* (end - start) mod C, C being the modulus of inc_ndx and dec_ndx
Count == (end_ndx - start_ndx) % BUFLEN

\* the bytes from the read cursor up to the write cursor, oldest first
Content == [i \in 1..Count |-> buf[(start_ndx + i - 1) % BUFLEN]]

\* s without its maximal trailing run of non-whitespace bytes
RECURSIVE StripWord(_)
StripWord(s) ==
    IF s = <<>> \/ isspace(s[Len(s)])
    THEN s
    ELSE StripWord(SubSeq(s, 1, Len(s) - 1))

\* the session received only ordinary bytes, then the carriage return
PlainLine ==
    /\ script # Edited
    /\ script.typed # <<>>
    /\ script.typed[Len(script.typed)] = CR

\* the ordinary bytes of a PlainLine
Typed == SubSeq(script.typed, 1, Len(script.typed) - 1)

\* C1: in every reachable state buf_len equals (end - start) mod C, lies in
\* 0..C-1 and is 0 exactly when start = end.
C1_BufLenIsCount ==
    /\ buf_len = Count
    /\ buf_len \in 0..(BUFLEN - 1)
    /\ (buf_len = 0) <=> (start_ndx = end_ndx)

\* C2: a line of n ordinary bytes and a carriage return, n + 1 within the
\* usable capacity C-1, leaves buf_len at the number of bytes pushed, and every
\* read returns min(len, bytes left) bytes that continue the line in order.
C2_PlainLineFifo ==
    (PlainLine /\ Len(Typed) + 1 <= BUFLEN - 1) =>
        /\ op = "cr" =>
            /\ buf_len = Len(Typed) + 1
            /\ Content = Typed \o <<NL>>
        /\ op = "drain" =>
            /\ ret = Min(len, Len(dest) + Len(line))
            /\ \E k \in 0..Len(Typed) + 1 :
                   SubSeq(Typed \o <<NL>>, k + 1, Len(Typed) + 1) = dest \o line

\* C3: a call of get_buffered_line made while start # end receives nothing,
\* sends nothing and leaves start, end and buf unchanged.
C3_UndrainedCallIsNoOp ==
    [][(/\ start_ndx # end_ndx
        /\ GetBufferedLine \/ \E fd \in 0..2, n \in ReadLens : Read(fd, n))
       => /\ UNCHANGED <<start_ndx, end_ndx, buf>>
          /\ sent' = <<>>
          /\ pc' # "line"]_vars

C3_Witness ==
    /\ op = "fill_return"
    /\ start_ndx # end_ndx
    /\ pc = "idle"
    /\ Count = 1

\* the read of C4: it ran the session of a plain line of n bytes itself and
\* asks for more bytes than the line and its newline
C4_Case ==
    /\ pc = "drain"
    /\ op = "cr"
    /\ PlainLine
    /\ len > Len(Typed) + 1

C5_RejectAtCapacity ==
    [][\A c \in Ordinary :
        Recv(c) =>
            IF Count = BUFLEN - 2
            THEN /\ sent' = <<BEL>>
                 /\ UNCHANGED <<start_ndx, end_ndx, buf>>
            ELSE Count < BUFLEN - 2 =>
                 /\ buf'[end_ndx] = c
                 /\ end_ndx' = (end_ndx + 1) % BUFLEN
                 /\ sent' = <<c>>
                 /\ UNCHANGED start_ndx]_vars

\* C6: when get_buffered_line returns after a carriage return, start # end
\* and the buffer holds exactly the accepted bytes of the line and '\n'.
C6_TerminatorFits ==
    op = "cr" =>
        /\ start_ndx # end_ndx
        /\ Content = line

\* C7: erase-word removes exactly the maximal trailing run of non-whitespace
\* bytes of the buffered line, with one back-up sequence per byte removed.
C7_EraseWord ==
    [][Recv(CTRL_W) =>
        /\ Content' = StripWord(Content)
        /\ sent' = Repeat(BackUpBytes, Len(Content) - Len(StripWord(Content)))]_vars

\* C8: erase-line leaves end = start and sends as many back-up sequences as
\* the occupied count was.
C8_EraseLine ==
    [][Recv(CTRL_U) =>
        /\ end_ndx' = start_ndx'
        /\ sent' = Repeat(BackUpBytes, Count)]_vars

\* C9: backspace or delete on an empty buffer changes neither cursor and sends
\* one alert; otherwise end steps back by one mod C, start stays, the occupied
\* count drops by one and backspace, space, backspace are sent.
C9_EraseChar ==
    [][(Recv(BS) \/ Recv(DEL)) =>
        IF start_ndx = end_ndx
        THEN /\ UNCHANGED <<start_ndx, end_ndx>>
             /\ sent' = <<BEL>>
        ELSE /\ end_ndx' = (end_ndx - 1) % BUFLEN
             /\ start_ndx' = start_ndx
             /\ Count' = Count - 1
             /\ sent' = <<BS, 32, BS>>]_vars

C9_Witness ==
    /\ op = "erase_char"
    /\ pc = "line"
    /\ end_ndx = BUFLEN - 1
    /\ start_ndx = BUFLEN - 1
    /\ sent = <<BS, 32, BS>>

\* C10: the copy loop of _read returns min(len, occupied count) bytes, the
\* oldest first, advances start by that number mod C and leaves end alone; a
\* len below the occupied count leaves start # end.
C10_ReadDrains ==
    [][Drain =>
        /\ ret' = Min(len, Count)
        /\ dest' = SubSeq(Content, 1, ret')
        /\ start_ndx' = (start_ndx + ret') % BUFLEN
        /\ end_ndx' = end_ndx
        /\ (len < Count => start_ndx' # end_ndx')]_vars
\* the longest prefix of p of at most n bytes that holds no NUL
NoNulPrefix(p, n) ==
    LET m == Min(n, Len(p))
        k == CHOOSE j \in 0..m :
                 /\ \A i \in 1..j : p[i] # NUL
                 /\ j = m \/ p[j + 1] = NUL
    IN SubSeq(p, 1, k)

\* s with a carriage return put after each newline
RECURSIVE CrAfterNl(_)
CrAfterNl(s) ==
    IF s = <<>> THEN <<>>
    ELSE CrAfterNl(SubSeq(s, 1, Len(s) - 1))
         \o (IF s[Len(s)] = NL THEN <<NL, CR>> ELSE <<s[Len(s)]>>)

\* C11: _write on fd 0, 1 or 2 sends the source bytes up to len bytes or the
\* first NUL, a carriage return right after each newline, returns the number
\* of source bytes consumed and leaves the ring buffer alone.
C11_WriteSends ==
    [][(\E fd \in 0..2 : Write(fd, ptr', len')) =>
            /\ sent' = CrAfterNl(NoNulPrefix(ptr', len'))
            /\ ret' = Len(NoNulPrefix(ptr', len'))
            /\ UNCHANGED <<start_ndx, end_ndx, buf>>]_vars

C11_Witness ==
    /\ op = "write"
    /\ ptr = <<65, NL, 66>>
    /\ len = 3
    /\ sent = <<65, NL, CR, 66>>
    /\ ret = 3
    /\ start_ndx # end_ndx

\* C12: _read and _write given a file identifier other than 0, 1 and 2 return
\* a negative value, send and receive nothing and leave the ring buffer
\* alone; given 0, 1 or 2 they do the same whichever of the three it is.
C12_OnlyStdStreams ==
    [][/\ \A fd \in Fds \ {0, 1, 2}, n \in ReadLens :
            Read(fd, n) =>
                /\ ret' < 0
                /\ sent' = <<>>
                /\ pc' = "idle"
                /\ UNCHANGED <<start_ndx, end_ndx, buf>>
       /\ \A fd \in Fds \ {0, 1, 2} :
            Write(fd, ptr', len') =>
                /\ ret' < 0
                /\ sent' = <<>>
                /\ UNCHANGED <<start_ndx, end_ndx, buf>>
       /\ \A fd \in 0..2, other \in 0..2 :
            /\ \A n \in ReadLens : Read(fd, n) => Read(other, n)
            /\ Write(fd, ptr', len') => Write(other, ptr', len')]_vars

\* C13: msleep returns only after at least delay ticks have been taken since
\* it was called.
C13_NeverEarly ==
    [][MsleepReturn => slept >= delay]_vars

\* C14: a tick adds one to the counter (modulo its width) and changes nothing
\* else of the program, wherever the main thread is; no step of the main
\* thread changes the counter.
C14_TickOnlyCounts ==
    [][/\ Tick =>
            /\ system_millis' = (system_millis + 1) % MillisMod
            /\ UNCHANGED <<start_ndx, end_ndx, buf, pc, caller, len, ptr, dest,
                           ret, sent, op, wake, delay>>
       /\ system_millis' # system_millis => Tick]_vars

C14_Witness ==
    /\ pc = "line"
    /\ op = "insert"
    /\ start_ndx # end_ndx
    /\ system_millis = MillisMod - 1

\* C15: a _read on a supported stream with len >= 1 that gets past
\* get_buffered_line (a carriage return was delivered, or start # end at the
\* call) returns at least one byte.
C15_ReadReturnsByte ==
    (op = "drain" /\ len >= 1) => ret >= 1

\* C16: during a session the bytes echoed as accepted less the back-ups made
\* are as many as the bytes held between start and end.
C16_EchoMatchesBuffer ==
    pc = "line" => Len(line) = Count

\* bytes the code can have left in a slot of buf
StoredBytes == Ordinary \cup {NUL, NL}

\* C17: what erase-word does in a session does not depend on the byte in the
\* slot at end_ndx, which holds no byte of the line.
C17_StaleByteIgnored ==
    pc = "line" =>
        \A v \in StoredBytes :
            WordBackUpsIn([buf EXCEPT ![end_ndx] = v], end_ndx) = WordBackUps(end_ndx)

\* the subscripts of buf the next step of get_buffered_line or _read can use
Subscripts ==
    IF pc = "line"
    THEN {end_ndx, inc_ndx(end_ndx)}
         \cup {DecBy(end_ndx, k) : k \in 0..WordBackUps(end_ndx)}
         \cup {DecBy(end_ndx, k) : k \in 0..LineBackUps(end_ndx)}
    ELSE IF pc = "drain"
    THEN {IncBy(start_ndx, k) : k \in 0..Copies(start_ndx, len)}
    ELSE {}

\* C18: start_ndx and end_ndx stay in 0..BUFLEN-1 and every subscript used
\* on buf, the one of the sentinel included, is inside its BUFLEN+1 bytes.
C18_InBounds ==
    /\ start_ndx \in 0..(BUFLEN - 1)
    /\ end_ndx \in 0..(BUFLEN - 1)
    /\ DOMAIN buf = 0..BUFLEN
    /\ Subscripts \subseteq DOMAIN buf

C18_Witness ==
    /\ op = "cr"
    /\ start_ndx # 0
    /\ buf[BUFLEN - 1] = NL
    /\ end_ndx = 0
    /\ buf[0] = NUL

====
